---- MODULE Spec2Model ----
(***************************************************************************)
(* PageRank engine of pagerank.py: transition_model, sample_pagerank and   *)
(* iterate_pagerank.                                                       *)
(*                                                                         *)
(* Numbers.  Every Python number is modelled as an exact rational <<n, d>> *)
(* in lowest terms with d > 0 (Python ints are the rationals <<k, 1>>).    *)
(* Pages are the integers 1..N, standing for the N keys of the corpus      *)
(* dictionary in insertion order, which is the order `for page in corpus`  *)
(* visits them.                                                            *)
(***************************************************************************)
EXTENDS Integers, FiniteSets, Sequences, TLC

VARIABLES op, corpus, damping_factor, n, page, pc, page_ranks, new_page_rank,
          working_page, i, todo, result, outcome

vars == <<op, corpus, damping_factor, n, page, pc, page_ranks, new_page_rank,
          working_page, i, todo, result, outcome>>

\* ---------------------------------------------------------------- bounds
MaxPages == 3
MaxWalkPages == 2
MaxSamples == 4

\* ------------------------------------------------- exact rational numbers
Abs(x) == IF x < 0 THEN -x ELSE x

Euclid[a \in Nat, b \in Nat] == IF b = 0 THEN a ELSE Euclid[b, a % b]

GCD(a, b) == Euclid[a, b]

LCM(a, b) == (a \div GCD(a, b)) * b

Min(S) == CHOOSE x \in S : \A y \in S : x <= y

\* Arithmetic is written as functions of the operand values, so that an
\* operand is evaluated once, before the operation is applied.
Pairs == Int \X Int

Reduced[num \in Int, den \in Int, g \in Int] == <<num \div g, den \div g>>

Normalized[num \in Int, den \in Int] == Reduced[num, den, GCD(Abs(num), den)]

RNorm(num, den) == Normalized[num, den]

Rat(k) == <<k, 1>>

Scaled[x \in Pairs, y \in Pairs, l \in Int] ==
    RNorm(x[1] * (l \div x[2]) + y[1] * (l \div y[2]), l)

Sum[x \in Pairs, y \in Pairs] == Scaled[x, y, LCM(x[2], y[2])]

RAdd(x, y) == Sum[x, y]

Negated[x \in Pairs] == <<-x[1], x[2]>>

RNeg(x) == Negated[x]

RSub(x, y) == RAdd(x, RNeg(y))

Crossed[x \in Pairs, y \in Pairs, g1 \in Int, g2 \in Int] ==
    RNorm((x[1] \div g1) * (y[1] \div g2), (x[2] \div g2) * (y[2] \div g1))

Product[x \in Pairs, y \in Pairs] ==
    Crossed[x, y, GCD(Abs(x[1]), y[2]), GCD(Abs(y[1]), x[2])]

RMul(x, y) == Product[x, y]

\* x / k for a positive integer k (a len(...) or the sample count)
RDiv(x, k) == RMul(x, <<1, k>>)

Magnitude[x \in Pairs] == <<Abs(x[1]), x[2]>>

RAbs(x) == Magnitude[x]

Less[x \in Pairs, y \in Pairs] == x[1] * y[2] < y[1] * x[2]

RLess(x, y) == Less[x, y]

RGeq(x, y) == ~RLess(x, y)

RECURSIVE RSum(_, _)
RSum(f, S) ==
    IF S = {} THEN Rat(0)
    ELSE LET x == Min(S) IN RAdd(f[x], RSum(f, S \ {x}))

\* ------------------------------------------------------------ the inputs
\* Graphs crawl() can build over k pages: every neighbour is a key, and no
\* page links to itself.
Corpora(k) ==
    {g \in [1..k -> SUBSET (1..k)] : \A p \in 1..k : p \notin g[p]}

AllCorpora == UNION {Corpora(k) : k \in 0..MaxPages}

WalkCorpora == UNION {Corpora(k) : k \in 0..MaxWalkPages}

DAMPING == <<17, 20>>

NoResult == "NoResult"

\* ------------------------------------------------------- transition_model
\* every page taken for a link, whatever the working page links to
LinksAllPages(c, p) == DOMAIN c

\* the links of the working page, every page when it has none
Links(c, p) == IF c[p] # {} THEN c[p] ELSE DOMAIN c

\* (1 - damping_factor) / total_number_of_pages
JumpShare(d, total_number_of_pages) ==
    RDiv(RSub(Rat(1), d), total_number_of_pages)

\* the damping share split over the corpus instead of over the links
LinkShareOverCorpus(d, links, total_number_of_pages) ==
    RDiv(d, total_number_of_pages)

\* damping_factor / len(links)
LinkShare(d, links, total_number_of_pages) == RDiv(d, Cardinality(links))

transition_model(c, p, d) ==
    LET total_number_of_pages == Cardinality(DOMAIN c)
        links == Links(c, p)
    IN  [web_page \in DOMAIN c |->
            IF web_page \in links
            THEN RAdd(JumpShare(d, total_number_of_pages),
                      LinkShare(d, links, total_number_of_pages))
            ELSE JumpShare(d, total_number_of_pages)]

TransitionDampings == {<<0, 1>>, <<1, 4>>, <<1, 2>>, DAMPING, <<1, 1>>}

TransitionInit ==
    /\ op = "transition_model"
    /\ corpus \in AllCorpora
    /\ DOMAIN corpus # {}
    /\ page \in DOMAIN corpus
    /\ damping_factor \in TransitionDampings
    /\ n = 0
    /\ pc = "start"
    /\ page_ranks = <<>>
    /\ new_page_rank = <<>>
    /\ working_page = 0
    /\ i = 0
    /\ todo = {}
    /\ result = NoResult
    /\ outcome = "running"

\* one call of transition_model(corpus, page, damping_factor)
TransitionModel ==
    /\ op = "transition_model"
    /\ pc = "start"
    /\ result' = transition_model(corpus, page, damping_factor)
    /\ outcome' = "returned"
    /\ pc' = "done"
    /\ UNCHANGED <<op, corpus, damping_factor, n, page, page_ranks,
                   new_page_rank, working_page, i, todo>>

TransitionNext == TransitionModel

SpecTransition == TransitionInit /\ [][TransitionNext]_vars

\* -------------------------------------------------------- sample_pagerank
SampleDampings == {<<0, 1>>, <<1, 2>>, DAMPING, <<1, 1>>}

SampleInit ==
    /\ op = "sample_pagerank"
    /\ corpus \in WalkCorpora
    /\ damping_factor \in SampleDampings
    /\ n \in 0..MaxSamples
    /\ page = 0
    /\ pc = "start"
    /\ page_ranks = <<>>
    /\ new_page_rank = <<>>
    /\ working_page = 0
    /\ i = 0
    /\ todo = {}
    /\ result = NoResult
    /\ outcome = "running"

\* random.choices(pages, probabilities)[0]: a page of positive weight
Choices(prob_dict) ==
    {p \in DOMAIN prob_dict : RLess(Rat(0), prob_dict[p])}

\* a walk of one round too many
WalkContinuesInclusive(k, samples) == k <= samples

\* `for i in range(n)` has another round to run
WalkContinues(k, samples) == k < samples

\* page_ranks[working_page] += 1
CountVisit(ranks, p) == [ranks EXCEPT ![p] = RAdd(@, Rat(1))]

\* `for page in page_ranks: page_ranks[page] /= n`: the first division
\* raises ZeroDivisionError when n is 0
Divide(ranks, samples) ==
    IF DOMAIN ranks # {} /\ samples = 0
    THEN [raised |-> "ZeroDivisionError", ranks |-> ranks]
    ELSE [raised |-> "",
          ranks |-> [p \in DOMAIN ranks |-> RDiv(ranks[p], samples)]]

\* the counters are zeroed; random.choice picks the starting page, and
\* raises IndexError on an empty list of keys
SampleStart ==
    /\ op = "sample_pagerank"
    /\ pc = "start"
    /\ page_ranks' = [web_page \in DOMAIN corpus |-> Rat(0)]
    /\ IF DOMAIN corpus = {}
       THEN /\ outcome' = "IndexError"
            /\ pc' = "done"
            /\ UNCHANGED working_page
       ELSE /\ working_page' \in DOMAIN corpus
            /\ pc' = "walk"
            /\ UNCHANGED outcome
    /\ UNCHANGED <<op, corpus, damping_factor, n, page, new_page_rank, i,
                   todo, result>>

\* one round of the walk: count the working page, draw the next one
SampleStep ==
    /\ op = "sample_pagerank"
    /\ pc = "walk"
    /\ WalkContinues(i, n)
    /\ page_ranks' = CountVisit(page_ranks, working_page)
    /\ working_page' \in
          Choices(transition_model(corpus, working_page, damping_factor))
    /\ i' = i + 1
    /\ UNCHANGED <<op, corpus, damping_factor, n, page, pc, new_page_rank,
                   todo, result, outcome>>

\* after the walk every counter is divided by n and the mapping returned
SampleFinish ==
    /\ op = "sample_pagerank"
    /\ pc = "walk"
    /\ ~WalkContinues(i, n)
    /\ LET divided == Divide(page_ranks, n)
       IN  IF divided.raised # ""
           THEN /\ outcome' = divided.raised
                /\ UNCHANGED <<page_ranks, result>>
           ELSE /\ page_ranks' = divided.ranks
                /\ result' = divided.ranks
                /\ outcome' = "returned"
    /\ pc' = "done"
    /\ UNCHANGED <<op, corpus, damping_factor, n, page, new_page_rank,
                   working_page, i, todo>>

SampleNext == SampleStart \/ SampleStep \/ SampleFinish

SpecSample == SampleInit /\ [][SampleNext]_vars

\* ------------------------------------------------------- iterate_pagerank
IterateDampings == {<<0, 1>>, <<9, 4000>>, <<1, 4>>, <<1, 2>>}

threshold == <<1, 1000>>

IterateInit ==
    /\ op = "iterate_pagerank"
    /\ corpus \in AllCorpora
    /\ damping_factor \in IterateDampings
    /\ n = 0
    /\ page = 0
    /\ pc = "start"
    /\ page_ranks = <<>>
    /\ new_page_rank = <<>>
    /\ working_page = 0
    /\ i = 0
    /\ todo = {}
    /\ result = NoResult
    /\ outcome = "running"

\* an in-place relaxation, reading the ranks already written this iteration
ReadRankInPlace(old_ranks, new_ranks, w) == new_ranks[w]

\* the rank the relaxation reads for working_page: page_ranks, the vector
\* of the previous iteration
ReadRank(old_ranks, new_ranks, w) == old_ranks[w]

\* a relaxation without the share of the pages that have no links
ContributionLinkedOnly(c, old_ranks, new_ranks, d, p, w) ==
    IF p \in c[w]
    THEN RMul(d, RDiv(old_ranks[w], Cardinality(c[w])))
    ELSE Rat(0)

\* what one working_page adds to the total of page p
Contribution(c, old_ranks, new_ranks, d, p, w) ==
    LET number_of_pages == Cardinality(DOMAIN c)
        linked == IF p \in c[w]
                  THEN RMul(d, RDiv(ReadRank(old_ranks, new_ranks, w),
                                    Cardinality(c[w])))
                  ELSE Rat(0)
        no_links == IF c[w] = {}
                    THEN RMul(d, RDiv(ReadRank(old_ranks, new_ranks, w),
                                      number_of_pages))
                    ELSE Rat(0)
    IN  RAdd(linked, no_links)

\* the new rank of page p: total[k] is `total` after the rounds of
\* `for working_page in corpus` over the first k pages
PageTotal(c, old_ranks, new_ranks, d, p) ==
    LET number_of_pages == Cardinality(DOMAIN c)
        total[k \in 0..number_of_pages] ==
            IF k = 0
            THEN JumpShare(d, number_of_pages)
            ELSE RAdd(total[k - 1],
                      Contribution(c, old_ranks, new_ranks, d, p, k))
    IN  total[number_of_pages]

\* difference = abs(new_page_rank[page] - page_ranks[page])
Difference(old_ranks, new_ranks, p) == RAbs(RSub(new_ranks[p], old_ranks[p]))

\* The outcomes `difference >= threshold` can have.  The code computes in
\* doubles: when the exact difference is the threshold itself, the rounding
\* of the arithmetic decides, and it goes either way (corpus {1: {}, 2: {1},
\* 3: {1}} with damping 9/4000 gives 0.0009999999999999454, corpus {1: {},
\* 2: {1}} with damping 1/250 gives 0.0010000000000000009).  Any other
\* difference the model can hold is further from the threshold than the
\* rounding error of the doubles, and the exact comparison decides.
Exceeds(difference) ==
    IF difference = threshold
    THEN {TRUE, FALSE}
    ELSE {RGeq(difference, threshold)}

\* the values `converged` can hold when the convergence loop ends
Converged(old_ranks, new_ranks) ==
    {b \in BOOLEAN :
        IF b
        THEN \A p \in DOMAIN old_ranks :
                FALSE \in Exceeds(Difference(old_ranks, new_ranks, p))
        ELSE \E p \in DOMAIN old_ranks :
                TRUE \in Exceeds(Difference(old_ranks, new_ranks, p))}

\* the old vector kept for the next iteration
ReplacedRanksKept(old_ranks, new_ranks) == old_ranks

\* page_ranks for the next iteration
ReplacedRanks(old_ranks, new_ranks) == new_ranks

\* the mapping the function returns
ReturnedRanks(old_ranks, new_ranks) == old_ranks

\* every rank starts at 1 / number_of_pages, new_page_rank is a copy
IterateStart ==
    /\ op = "iterate_pagerank"
    /\ pc = "start"
    /\ page_ranks' = [p \in DOMAIN corpus |->
                         RDiv(Rat(1), Cardinality(DOMAIN corpus))]
    /\ new_page_rank' = page_ranks'
    /\ todo' = DOMAIN corpus
    /\ pc' = "relax"
    /\ UNCHANGED <<op, corpus, damping_factor, n, page, working_page, i,
                   result, outcome>>

\* one round of `for page in corpus`: the new rank of the next page
ComputePage ==
    /\ op = "iterate_pagerank"
    /\ pc = "relax"
    /\ todo # {}
    /\ LET p == Min(todo)
       IN  /\ new_page_rank' =
                 [new_page_rank EXCEPT
                     ![p] = PageTotal(corpus, page_ranks, new_page_rank,
                                      damping_factor, p)]
           /\ todo' = todo \ {p}
    /\ UNCHANGED <<op, corpus, damping_factor, n, page, pc, page_ranks,
                   working_page, i, result, outcome>>

\* the convergence test fails: page_ranks becomes a copy of new_page_rank
IterateAgain ==
    /\ op = "iterate_pagerank"
    /\ pc = "relax"
    /\ todo = {}
    /\ FALSE \in Converged(page_ranks, new_page_rank)
    /\ page_ranks' = ReplacedRanks(page_ranks, new_page_rank)
    /\ todo' = DOMAIN corpus
    /\ UNCHANGED <<op, corpus, damping_factor, n, page, pc, new_page_rank,
                   working_page, i, result, outcome>>

\* the convergence test passes: the loop breaks and the function returns
IterateReturn ==
    /\ op = "iterate_pagerank"
    /\ pc = "relax"
    /\ todo = {}
    /\ TRUE \in Converged(page_ranks, new_page_rank)
    /\ result' = ReturnedRanks(page_ranks, new_page_rank)
    /\ outcome' = "returned"
    /\ pc' = "done"
    /\ UNCHANGED <<op, corpus, damping_factor, n, page, page_ranks,
                   new_page_rank, working_page, i, todo>>

IterateNext == IterateStart \/ ComputePage \/ IterateAgain \/ IterateReturn

SpecIterate == IterateInit /\ [][IterateNext]_vars

\* the interpreter runs the function to its end: a step that can be taken
\* is taken
FairSpecIterate == SpecIterate /\ WF_vars(IterateNext)

\* ------------------------------------------------------------ the program
Init == TransitionInit \/ SampleInit \/ IterateInit

Next == TransitionNext \/ SampleNext \/ IterateNext

Spec == Init /\ [][Next]_vars

\* ============================================================ properties
\* damping factor strictly between 0 and 1
ValidDamping(d) == RLess(Rat(0), d) /\ RLess(d, Rat(1))

\* non-negative values that sum to 1 over the pages of the corpus
IsDistribution(f) ==
    /\ DOMAIN f = DOMAIN corpus
    /\ \A p \in DOMAIN f : RGeq(f[p], Rat(0))
    /\ RSum(f, DOMAIN f) = Rat(1)

\* links(q) of the recurrence: a page without links links to every page
RefLinks(c, q) == IF c[q] = {} THEN DOMAIN c ELSE c[q]

\* the reference distribution of section 4.1
RefTransition(c, p, d) ==
    LET N == Cardinality(DOMAIN c)
        L == RefLinks(c, p)
    IN  [P \in DOMAIN c |->
            RAdd(RMul(RSub(Rat(1), d), <<1, N>>),
                 IF P \in L THEN RMul(d, <<1, Cardinality(L)>>) ELSE Rat(0))]

\* the recurrence PR(p) = (1-d)/N + d * sum over q -> p of PR(q)/|links(q)|
RefRecurrence(c, ranks, d, p) ==
    LET N == Cardinality(DOMAIN c)
        share == [q \in DOMAIN c |->
                     IF p \in RefLinks(c, q)
                     THEN RMul(ranks[q], <<1, Cardinality(RefLinks(c, q))>>)
                     ELSE Rat(0)]
    IN  RAdd(RMul(RSub(Rat(1), d), <<1, N>>),
             RMul(d, RSum(share, DOMAIN c)))

TransitionReturned ==
    op = "transition_model" /\ pc = "done" /\ ValidDamping(damping_factor)

\* C1: for a valid graph, a page of it and a damping factor in (0,1), the
\* mapping transition_model returns has exactly the corpus pages as keys
\* and its values sum to exactly 1.
C1_TransitionSumsToOne ==
    TransitionReturned =>
        /\ DOMAIN result = DOMAIN corpus
        /\ RSum(result, DOMAIN result) = Rat(1)

C1_Witness ==
    /\ TransitionReturned
    /\ Cardinality(DOMAIN corpus) = 3
    /\ Cardinality(corpus[page]) = 2
    /\ DOMAIN result = DOMAIN corpus
    /\ RSum(result, DOMAIN result) = Rat(1)

\* C2: transition_model returns the reference distribution: (1-d)/N for
\* every page, plus d/|links| for the pages in links, links being the
\* page's links or, for a page without links, every page; so a page
\* without links gives every page, itself included, exactly 1/N.
C2_TransitionIsReference ==
    TransitionReturned =>
        /\ result = RefTransition(corpus, page, damping_factor)
        /\ corpus[page] = {} =>
              \A P \in DOMAIN corpus :
                  result[P] = <<1, Cardinality(DOMAIN corpus)>>

C2_Witness ==
    /\ TransitionReturned
    /\ Cardinality(DOMAIN corpus) = 3
    /\ corpus[page] = {}
    /\ \E q \in DOMAIN corpus : corpus[q] # {}
    /\ result[page] = <<1, 3>>

SampleValid ==
    /\ op = "sample_pagerank"
    /\ DOMAIN corpus # {}
    /\ ValidDamping(damping_factor)
    /\ n >= 1

\* C3: with a valid graph, damping in (0,1) and n >= 1, whatever the draws,
\* the walk runs exactly n rounds, each adding 1 to the counter of one
\* corpus page: the counters are whole, non-negative and sum to the rounds
\* run so far, and the function returns counter / n for every page, values
\* that are non-negative and sum to 1.
C3_SampleCounts ==
    SampleValid =>
        /\ pc = "walk" =>
              /\ i <= n
              /\ DOMAIN page_ranks = DOMAIN corpus
              /\ \A p \in DOMAIN corpus :
                    page_ranks[p][2] = 1 /\ page_ranks[p][1] >= 0
              /\ RSum(page_ranks, DOMAIN corpus) = Rat(i)
        /\ pc = "done" =>
              /\ i = n
              /\ outcome = "returned"
              /\ IsDistribution(result)
              /\ \A p \in DOMAIN corpus :
                    RMul(result[p], Rat(n))[2] = 1

C3_Witness ==
    /\ SampleValid
    /\ pc = "done"
    /\ n >= 3
    /\ i = n
    /\ outcome = "returned"
    /\ \E p, q \in DOMAIN corpus :
          p # q /\ result[p] = <<1, n>> /\ RLess(result[p], result[q])

IterateValid ==
    /\ op = "iterate_pagerank"
    /\ DOMAIN corpus # {}
    /\ ValidDamping(damping_factor)

InitialRanks ==
    [p \in DOMAIN corpus |-> <<1, Cardinality(DOMAIN corpus)>>]

\* C4: with a valid graph and damping in (0,1), the rank vector sums to 1
\* with no negative value at initialisation and after every iteration, the
\* vector a finished iteration has computed does too, and so does the
\* mapping returned.
C4_RanksAreDistribution ==
    (IterateValid /\ pc # "start") =>
        /\ IsDistribution(page_ranks)
        /\ todo = {} => IsDistribution(new_page_rank)
        /\ pc = "done" => outcome = "returned" /\ IsDistribution(result)

C4_Witness ==
    /\ IterateValid
    /\ pc = "done"
    /\ \E q \in DOMAIN corpus : corpus[q] = {}
    /\ \E q \in DOMAIN corpus : corpus[q] # {}
    /\ result # InitialRanks
    /\ IsDistribution(result)

SampleNoRounds ==
    op = "sample_pagerank" /\ n = 0 /\ DOMAIN corpus # {} /\ pc = "done"

\* C5: sample_pagerank with n = 0 on a non-empty graph fails with
\* InvalidArgument and returns no mapping.
C5_FailsInvalidArgument ==
    SampleNoRounds => outcome = "InvalidArgument" /\ result = NoResult

\* C6: iterate_pagerank on an empty corpus fails with InvalidArgument
\* instead of returning a mapping.
C6_EmptyCorpusFails ==
    (op = "iterate_pagerank" /\ DOMAIN corpus = {} /\ pc = "done") =>
        outcome = "InvalidArgument" /\ result = NoResult

\* C7: with a damping factor outside (0,1), the arguments being valid
\* otherwise, sample_pagerank and iterate_pagerank fail with
\* InvalidArgument and return no mapping.
C7_DampingRejected ==
    (/\ op \in {"sample_pagerank", "iterate_pagerank"}
     /\ ~ValidDamping(damping_factor)
     /\ DOMAIN corpus # {}
     /\ op = "sample_pagerank" => n >= 1
     /\ pc = "done") =>
        outcome = "InvalidArgument" /\ result = NoResult

\* C8: with a valid non-empty graph and damping in (0,1), the relaxation
\* loop reaches an iteration whose convergence test passes, and the
\* function returns.
C8_IterateTerminates ==
    (IterateValid /\ pc = "start") ~> (pc = "done" /\ outcome = "returned")

C8_Witness ==
    /\ IterateValid
    /\ pc = "done"
    /\ outcome = "returned"
    /\ Cardinality(DOMAIN corpus) = 3
    /\ page_ranks # InitialRanks
    /\ TRUE \in Converged(page_ranks, new_page_rank)

\* C9: within an iteration every new rank is the recurrence applied to the
\* ranks of the previous iteration: the pages already computed hold it,
\* the pages still to compute hold their previous rank, and the old vector
\* is the one the iteration started from until every page is computed and
\* compared.
C9_SynchronousUpdate ==
    (op = "iterate_pagerank" /\ pc # "start") =>
        \A p \in DOMAIN corpus :
            IF p \in todo
            THEN new_page_rank[p] = page_ranks[p]
            ELSE new_page_rank[p] =
                    RefRecurrence(corpus, page_ranks, damping_factor, p)

C9_Witness ==
    /\ op = "iterate_pagerank"
    /\ pc = "relax"
    /\ todo = {}
    /\ Cardinality(DOMAIN corpus) = 3
    /\ page_ranks # InitialRanks
    /\ \A p \in DOMAIN corpus :
          /\ new_page_rank[p] # page_ranks[p]
          /\ new_page_rank[p] =
                RefRecurrence(corpus, page_ranks, damping_factor, p)

\* C10: iterate_pagerank returns the rank vector computed in the iteration
\* whose convergence test passed: every returned value is the recurrence
\* applied to the ranks of the previous iteration.
C10_ReturnsFinalIteration ==
    (IterateValid /\ pc = "done") =>
        /\ TRUE \in Converged(page_ranks, new_page_rank)
        /\ \A p \in DOMAIN corpus :
              result[p] =
                  RefRecurrence(corpus, page_ranks, damping_factor, p)

====
